---- MODULE Spec2Model ----
(***************************************************************************)
(* Model of gantt_diagram/visualize_schedule.py: the scheduler-log parser  *)
(* parse_output, the renderer's control flow draw_gantt, and the command   *)
(* line entry point.                                                       *)
(*                                                                         *)
(* A log line is a sequence of tokens.  A token [kind, arg] stands for the *)
(* text of one announcement: "***** TIME: <arg> *****", "running pid:      *)
(* <arg>", "waiting pid: <arg>", "ready pid: <arg>", or some other text.   *)
(* <arg> is a string over the characters "-" and "0".."9".                 *)
(***************************************************************************)
EXTENDS Integers, Sequences, FiniteSets, TLC

\* Bounds of the model.
MaxLines == 3
MaxPid == 2
MaxTick == 3

VARIABLES
  argc,             \* len(sys.argv)
  pc,               \* position of the program
  done,             \* the lines of the log consumed so far by the for loop
  data,             \* the dict built by parse_output
  current_time,
  current_running,
  current_waiting,
  current_ready,
  stdout,           \* messages printed
  saved,            \* files written by plt.savefig
  exit_code         \* -1 while the program has not exited

vars == <<argc, pc, done, data, current_time, current_running,
          current_waiting, current_ready, stdout, saved, exit_code>>

----------------------------------------------------------------------------
\* Text of numbers.

DigitChars == <<"0", "1", "2", "3", "4", "5", "6", "7", "8", "9">>

IsDigit(c) == \E i \in 1..10 : DigitChars[i] = c

DigitVal(c) == (CHOOSE i \in 1..10 : DigitChars[i] = c) - 1

\* The decimal text of a natural number, as the log's producer prints it.
RECURSIVE Decimal(_)
Decimal(n) ==
  IF n < 10 THEN <<DigitChars[n + 1]>>
  ELSE Decimal(n \div 10) \o <<DigitChars[(n % 10) + 1]>>

MinusOne == <<"-", "1">>

\* int(text) for a text of digits.
RECURSIVE int(_)
int(text) ==
  IF text = <<>> THEN 0
  ELSE 10 * int(SubSeq(text, 1, Len(text) - 1)) + DigitVal(text[Len(text)])

\* The regex group (\d+): the longest run of digits at the start of text.
RECURSIVE DigitRun(_)
DigitRun(text) ==
  IF text = <<>> \/ ~IsDigit(Head(text)) THEN <<>>
  ELSE <<Head(text)>> \o DigitRun(Tail(text))

----------------------------------------------------------------------------
\* Lines of the log.

Token(k, a) == [kind |-> k, arg |-> a]

TickTexts == {Decimal(n) : n \in 0..MaxTick} \cup {MinusOne}
PidTexts == {Decimal(n) : n \in 1..MaxPid} \cup {MinusOne}

SingleLines ==
  {<<Token("TIME", a)>> : a \in TickTexts}
    \cup {<<Token(k, a)>> : k \in {"running", "waiting", "ready"}, a \in PidTexts}
    \cup {<<Token("other", <<>>)>>}

\* Lines on which more than one pattern finds something.
MultiLines ==
  { <<Token("running", Decimal(1)), Token("waiting", Decimal(2))>>,
    <<Token("ready", Decimal(1)), Token("TIME", Decimal(1))>>,
    <<Token("running", MinusOne), Token("ready", Decimal(2))>> }

Lines == SingleLines \cup MultiLines

\* Concrete scenario A.
ScenarioA ==
  << <<Token("TIME", Decimal(0))>>,
     <<Token("running", Decimal(1))>>,
     <<Token("ready", Decimal(2))>>,
     <<Token("TIME", Decimal(1))>>,
     <<Token("running", Decimal(2))>>,
     <<Token("waiting", Decimal(1))>>,
     <<Token("ready", Decimal(1))>> >>

\* A log with an event before the first marker and a marker that goes
\* backwards.
ScenarioOutOfOrder ==
  << <<Token("running", Decimal(1))>>,
     <<Token("TIME", Decimal(2))>>,
     <<Token("waiting", Decimal(1))>>,
     <<Token("TIME", Decimal(1))>>,
     <<Token("running", Decimal(2))>>,
     <<Token("waiting", Decimal(2))>>,
     <<Token("ready", Decimal(1))>>,
     <<Token("other", <<>>)>> >>

Scenarios == {ScenarioA, ScenarioOutOfOrder}

IsPrefix(s, t) == Len(s) <= Len(t) /\ SubSeq(t, 1, Len(s)) = s

----------------------------------------------------------------------------
\* The regex patterns.  A match is [ok, group]; group is group(1).

NoMatch == [ok |-> FALSE, group |-> <<>>]

\* pattern.search(line): the leftmost token of the kind whose argument
\* starts with a digit.
RECURSIVE Search(_, _)
Search(kind, line) ==
  IF line = <<>> THEN NoMatch
  ELSE IF Head(line).kind = kind /\ DigitRun(Head(line).arg) # <<>>
       THEN [ok |-> TRUE, group |-> DigitRun(Head(line).arg)]
       ELSE Search(kind, Tail(line))

\* A search that steps over a sign and captures the digits after it.
RECURSIVE SearchSigned(_, _)
SearchSigned(kind, line) ==
  IF line = <<>> THEN NoMatch
  ELSE LET a == Head(line).arg
           d == IF a # <<>> /\ Head(a) = "-" THEN DigitRun(Tail(a)) ELSE DigitRun(a)
       IN IF Head(line).kind = kind /\ d # <<>>
          THEN [ok |-> TRUE, group |-> d]
          ELSE SearchSigned(kind, Tail(line))

\* A tick pattern that steps over a sign and captures the digits after it.
RECURSIVE time_pattern_signed(_)
time_pattern_signed(line) ==
  IF line = <<>> THEN NoMatch
  ELSE LET a == Head(line).arg
           d == IF a # <<>> /\ Head(a) = "-" THEN Tail(a) ELSE a
       IN IF Head(line).kind = "TIME" /\ d # <<>> /\ DigitRun(d) = d
          THEN [ok |-> TRUE, group |-> d]
          ELSE time_pattern_signed(Tail(line))

\* The digits of a tick marker must be followed by " ***".
RECURSIVE time_pattern(_)
time_pattern(line) ==
  IF line = <<>> THEN NoMatch
  ELSE IF Head(line).kind = "TIME" /\ Head(line).arg # <<>>
          /\ DigitRun(Head(line).arg) = Head(line).arg
       THEN [ok |-> TRUE, group |-> Head(line).arg]
       ELSE time_pattern(Tail(line))

running_pattern_signed(line) == SearchSigned("running", line)

running_pattern(line) == Search("running", line)

waiting_pattern(line) == Search("waiting", line)

ready_pattern(line) == Search("ready", line)

----------------------------------------------------------------------------
\* Python dicts of lists: functions from the set of keys.

EmptyDict == [k \in {} |-> <<>>]

\* if k not in d: d[k] = [] ; d[k].insert(0, v)
DictPrepend(d, k, v) ==
  IF k \in DOMAIN d THEN [d EXCEPT ![k] = <<v>> \o @]
  ELSE d @@ (k :> <<v>>)

\* if k not in d: d[k] = [] ; d[k].append(v)
DictAppend(d, k, v) ==
  IF k \in DOMAIN d THEN [d EXCEPT ![k] = Append(@, v)]
  ELSE d @@ (k :> <<v>>)

Max(a, b) == IF a >= b THEN a ELSE b

InSeq(x, s) == \E i \in 1..Len(s) : s[i] = x

----------------------------------------------------------------------------
\* parse_output.  s is the record of the function's local state.

InitData ==
  [cpu |-> EmptyDict, io |-> EmptyDict, ready |-> EmptyDict,
   events |-> EmptyDict, max_time |-> 0, pids |-> {}]

\* The tick-marker branch that forgets the maximum.
TimeHandlerNoMax(s, m) ==
  [s EXCEPT !.current_time = int(m.group),
            !.data.max_time = int(m.group),
            !.current_waiting = <<>>,
            !.current_ready = <<>>,
            !.current_running = -1]

\* The tick-marker branch taking a marker that goes backwards for the
\* start of a new run.
TimeHandlerRestart(s, m) ==
  IF int(m.group) < s.current_time
  THEN [s EXCEPT !.current_time = int(m.group),
                 !.data = [InitData EXCEPT !.max_time = int(m.group)],
                 !.current_waiting = <<>>,
                 !.current_ready = <<>>,
                 !.current_running = -1]
  ELSE [s EXCEPT !.current_time = int(m.group),
                 !.data.max_time = Max(s.data.max_time, int(m.group)),
                 !.current_waiting = <<>>,
                 !.current_ready = <<>>,
                 !.current_running = -1]

TimeHandler(s, m) ==
  [s EXCEPT !.current_time = int(m.group),
            !.data.max_time = Max(s.data.max_time, int(m.group)),
            !.current_waiting = <<>>,
            !.current_ready = <<>>,
            !.current_running = -1]

\* The running branch recording the highest tick instead of the current
\* one.
RunningHandlerAtMax(s, m) ==
  LET pid == int(m.group) IN
  IF pid # -1
  THEN [s EXCEPT !.current_running = pid,
                 !.data.pids = @ \cup {pid},
                 !.data.cpu = DictAppend(@, pid, s.data.max_time)]
  ELSE s

RunningHandler(s, m) ==
  LET pid == int(m.group) IN
  IF pid # -1
  THEN [s EXCEPT !.current_running = pid,
                 !.data.pids = @ \cup {pid},
                 !.data.cpu = DictAppend(@, pid, s.current_time)]
  ELSE s

\* The waiting branch without data['pids'].add(pid).
WaitingHandlerNoPid(s, m) ==
  LET pid == int(m.group) IN
  [s EXCEPT !.current_waiting = Append(@, pid),
            !.data.io = DictAppend(@, pid, s.current_time)]

WaitingHandler(s, m) ==
  LET pid == int(m.group) IN
  [s EXCEPT !.current_waiting = Append(@, pid),
            !.data.pids = @ \cup {pid},
            !.data.io = DictAppend(@, pid, s.current_time)]

\* The ready branch storing every announcement in data['ready'].
ReadyHandlerStoreAll(s, m) ==
  LET pid == int(m.group) IN
  [s EXCEPT !.current_ready = Append(@, pid),
            !.data.pids = @ \cup {pid},
            !.data.ready = DictAppend(@, s.current_time, pid)]

ReadyHandler(s, m) ==
  LET pid == int(m.group) IN
  [s EXCEPT !.current_ready = Append(@, pid),
            !.data.pids = @ \cup {pid}]

\* data['ready'] gets pid under current_time unless it is already there.
StoreReady(s, pid) ==
  LET t == s.current_time
      r == IF t \in DOMAIN s.data.ready THEN s.data.ready
           ELSE s.data.ready @@ (t :> <<>>)
  IN [s EXCEPT !.data.ready =
        IF InSeq(pid, r[t]) THEN r ELSE [r EXCEPT ![t] = Append(@, pid)]]

\* The tail of the loop body guarded by the in-progress queue instead of
\* the match.
FallThroughOnQueue(s, ready_match) ==
  IF s.current_ready # <<>>
  THEN StoreReady(s, s.current_ready[Len(s.current_ready)])
  ELSE s

\* The tail of the loop body, reached when no branch has continued.
FallThrough(s, ready_match) ==
  IF ready_match.ok THEN StoreReady(s, int(ready_match.group)) ELSE s

\* The loop body trying the waiting pattern before the running pattern.
ProcessLineWaitingFirst(s, line) ==
  LET time_match == time_pattern(line)
      run_match == running_pattern(line)
      wait_match == waiting_pattern(line)
      ready_match == ready_pattern(line)
  IN IF time_match.ok THEN TimeHandler(s, time_match)
     ELSE IF wait_match.ok THEN WaitingHandler(s, wait_match)
     ELSE IF run_match.ok THEN RunningHandler(s, run_match)
     ELSE IF ready_match.ok THEN ReadyHandler(s, ready_match)
     ELSE FallThrough(s, ready_match)

\* One iteration of "for line in lines".
ProcessLine(s, line) ==
  LET time_match == time_pattern(line)
      run_match == running_pattern(line)
      wait_match == waiting_pattern(line)
      ready_match == ready_pattern(line)
  IN IF time_match.ok THEN TimeHandler(s, time_match)
     ELSE IF run_match.ok THEN RunningHandler(s, run_match)
     ELSE IF wait_match.ok THEN WaitingHandler(s, wait_match)
     ELSE IF ready_match.ok THEN ReadyHandler(s, ready_match)
     ELSE FallThrough(s, ready_match)

\* "if pid not in d: d[pid] = []" left out.
EnsureKeyNever(d, k) == d

\* if pid not in d: d[pid] = []
EnsureKey(d, k) == IF k \in DOMAIN d THEN d ELSE d @@ (k :> <<>>)

\* int(text) raises ValueError unless text is an optional sign and digits.
IntRaises(text) ==
  LET body == IF text # <<>> /\ Head(text) = "-" THEN Tail(text) ELSE text
  IN body = <<>> \/ \E i \in 1..Len(body) : ~IsDigit(body[i])

\* The iteration for this line raises: ValueError from int(), or KeyError
\* from d[pid].append on a missing key.
Raises(s, line) ==
  LET time_match == time_pattern(line)
      run_match == running_pattern(line)
      wait_match == waiting_pattern(line)
      ready_match == ready_pattern(line)
  IN IF time_match.ok THEN IntRaises(time_match.group)
     ELSE IF run_match.ok
       THEN \/ IntRaises(run_match.group)
            \/ /\ int(run_match.group) # -1
               /\ int(run_match.group)
                    \notin DOMAIN EnsureKey(s.data.cpu, int(run_match.group))
     ELSE IF wait_match.ok
       THEN \/ IntRaises(wait_match.group)
            \/ int(wait_match.group)
                 \notin DOMAIN EnsureKey(s.data.io, int(wait_match.group))
     ELSE IF ready_match.ok THEN IntRaises(ready_match.group)
     ELSE FALSE

Locals ==
  [data |-> data, current_time |-> current_time,
   current_running |-> current_running,
   current_waiting |-> current_waiting, current_ready |-> current_ready]

----------------------------------------------------------------------------
\* draw_gantt's early return.

\* An early return that looks at the CPU lanes instead of the PIDs.
NoProcessesIfNoCpu(d) == DOMAIN d.cpu = {}

NoProcesses(d) == d.pids = {}

UsageMsg == "Usage: python visualize_schedule.py <output_file>"
NoProcMsg == "No processes found."
SavedMsg == "Gantt chart saved to gantt_diagram/schedule.png"
output_file == "gantt_diagram/schedule.png"

----------------------------------------------------------------------------
Init ==
  /\ argc \in {1, 2}
  /\ pc = "main"
  /\ done = <<>>
  /\ data = InitData
  /\ current_time = 0
  /\ current_running = -1
  /\ current_waiting = <<>>
  /\ current_ready = <<>>
  /\ stdout = <<>>
  /\ saved = {}
  /\ exit_code = -1

\* The argument check letting a bare command line through.
MissingArgumentOffByOne(n) == n < 1

\* len(sys.argv) < 2
MissingArgument(n) == n < 2

\* if len(sys.argv) < 2: usage, exit(1); else call parse_output.
Main ==
  /\ pc = "main"
  /\ IF MissingArgument(argc)
     THEN /\ stdout' = Append(stdout, UsageMsg)
          /\ exit_code' = 1
          /\ pc' = "exit"
     ELSE /\ pc' = "parse"
          /\ UNCHANGED <<stdout, exit_code>>
  /\ UNCHANGED <<argc, done, data, current_time, current_running,
                 current_waiting, current_ready, saved>>

\* The logs read: every log of at most MaxLines lines, and the scenarios.
CanRead(line) ==
  \/ Len(done) < MaxLines
  \/ \E sc \in Scenarios : IsPrefix(Append(done, line), sc)

\* One iteration of the loop over the next line of the file.  An uncaught
\* exception ends the program with status 1.
ReadLine ==
  /\ pc = "parse"
  /\ \E line \in Lines :
       /\ CanRead(line)
       /\ IF Raises(Locals, line)
          THEN /\ pc' = "error"
               /\ exit_code' = 1
               /\ UNCHANGED <<data, current_time, current_running,
                              current_waiting, current_ready>>
          ELSE /\ LET n == ProcessLine(Locals, line) IN
                    /\ data' = n.data
                    /\ current_time' = n.current_time
                    /\ current_running' = n.current_running
                    /\ current_waiting' = n.current_waiting
                    /\ current_ready' = n.current_ready
               /\ UNCHANGED <<pc, exit_code>>
       /\ done' = Append(done, line)
  /\ UNCHANGED <<argc, stdout, saved>>

\* End of the file: return data.
ReturnData ==
  /\ pc = "parse"
  /\ pc' = "draw"
  /\ UNCHANGED <<argc, done, data, current_time, current_running,
                 current_waiting, current_ready, stdout, saved, exit_code>>

draw_gantt ==
  /\ pc = "draw"
  /\ IF NoProcesses(data)
     THEN /\ stdout' = Append(stdout, NoProcMsg)
          /\ saved' = saved
     ELSE /\ saved' = saved \cup {output_file}
          /\ stdout' = Append(stdout, SavedMsg)
  /\ pc' = "exit"
  /\ exit_code' = 0
  /\ UNCHANGED <<argc, done, data, current_time, current_running,
                 current_waiting, current_ready>>

Next == Main \/ ReadLine \/ ReturnData \/ draw_gantt

Spec == Init /\ [][Next]_vars

\* The single thread keeps running while it has a step to take.
FairSpec == Spec /\ WF_vars(Next)

----------------------------------------------------------------------------
\* What the consumed lines say, read off the log itself.

\* The branch of the loop body that handles a line.
ClassOf(line) ==
  IF time_pattern(line).ok THEN "time"
  ELSE IF Search("running", line).ok THEN "running"
  ELSE IF waiting_pattern(line).ok THEN "waiting"
  ELSE IF ready_pattern(line).ok THEN "ready"
  ELSE "none"

\* The number announced by a line of class c.
ValueOf(line) ==
  CASE ClassOf(line) = "time" -> int(time_pattern(line).group)
    [] ClassOf(line) = "running" -> int(Search("running", line).group)
    [] ClassOf(line) = "waiting" -> int(waiting_pattern(line).group)
    [] ClassOf(line) = "ready" -> int(ready_pattern(line).group)
    [] OTHER -> -1

\* The tick in force after the first j lines: the latest marker, 0 if none.
RECURSIVE TickAfter(_)
TickAfter(j) ==
  IF j = 0 THEN 0
  ELSE IF ClassOf(done[j]) = "time" THEN ValueOf(done[j])
  ELSE TickAfter(j - 1)

\* Line j is an announcement of class c for PID p made while the tick is t.
Announces(j, c, p, t) ==
  /\ ClassOf(done[j]) = c
  /\ ValueOf(done[j]) = p
  /\ TickAfter(j - 1) = t

\* No tick marker among lines i..j.
NoMarker(i, j) == \A k \in i..j : ClassOf(done[k]) # "time"

\* The PIDs ready-announced at tick t among the first j lines, in the order
\* of their first announcements.
RECURSIVE ExpectedQueue(_, _)
ExpectedQueue(t, j) ==
  IF j = 0 THEN <<>>
  ELSE LET q == ExpectedQueue(t, j - 1) IN
       IF ClassOf(done[j]) = "ready" /\ TickAfter(j - 1) = t
          /\ ~InSeq(ValueOf(done[j]), q)
       THEN Append(q, ValueOf(done[j]))
       ELSE q

ReadyOf(t) == IF t \in DOMAIN data.ready THEN data.ready[t] ELSE <<>>

Ticks == 0..MaxTick
Pids == 1..MaxPid

Positions(p, q) == {i \in 1..Len(q) : q[i] = p}

Returned == pc \in {"draw", "exit"} /\ argc >= 2

----------------------------------------------------------------------------
\* C1: every ready-announcement of PID p made at tick t puts p in
\* data['ready'][t], and data['ready'][t] lists the PIDs in the order of
\* their first ready-announcements at tick t.
C1_ReadyQueueRecorded ==
  \A t \in Ticks : ReadyOf(t) = ExpectedQueue(t, Len(done))

\* C2: closure: every key of data['cpu'] and data['io'] and every element
\* of every data['ready'][t] is in data['pids'].
C2_Closure ==
  /\ DOMAIN data.cpu \subseteq data.pids
  /\ DOMAIN data.io \subseteq data.pids
  /\ \A t \in DOMAIN data.ready :
       \A i \in 1..Len(data.ready[t]) : data.ready[t][i] \in data.pids

\* A PID has been recorded as running and a PID as waiting and a PID has
\* been ready-announced.
C2_Witness ==
  /\ DOMAIN data.cpu # {}
  /\ DOMAIN data.io # {}
  /\ \E j \in 1..Len(done) : ClassOf(done[j]) = "ready"

\* C3: when a PID is ready-announced twice in one tick-block of tick t,
\* data['ready'][t] holds exactly one entry for it, at the index of its
\* first announcement.
C3_DuplicateSuppressed ==
  \A j1, j2 \in 1..Len(done) : \A p \in Pids : \A t \in Ticks :
    ( /\ j1 < j2
      /\ Announces(j1, "ready", p, t)
      /\ Announces(j2, "ready", p, t)
      /\ NoMarker(j1, j2) )
    => /\ Cardinality(Positions(p, ReadyOf(t))) = 1
       /\ Positions(p, ReadyOf(t)) = Positions(p, ExpectedQueue(t, Len(done)))

\* C4: parsing scenario A returns cpu = {1:[0], 2:[1]}, io = {1:[1]},
\* ready = {0:[2], 1:[1]}, max_time = 1, pids = {1, 2}.
C4_ScenarioA ==
  (Returned /\ done = ScenarioA)
    => /\ data.cpu = (1 :> <<0>>) @@ (2 :> <<1>>)
       /\ data.io = (1 :> <<1>>)
       /\ data.ready = (0 :> <<2>>) @@ (1 :> <<1>>)
       /\ data.max_time = 1
       /\ data.pids = {1, 2}

\* C5: max_time is at least every tick stored in data['cpu'], in
\* data['io'], and every key of data['ready'], also for events before the
\* first marker and for markers that go backwards.
C5_MaxTickBounds ==
  /\ \A p \in DOMAIN data.cpu :
       \A i \in 1..Len(data.cpu[p]) : data.cpu[p][i] <= data.max_time
  /\ \A p \in DOMAIN data.io :
       \A i \in 1..Len(data.io[p]) : data.io[p][i] <= data.max_time
  /\ \A t \in DOMAIN data.ready : t <= data.max_time

\* An event was recorded before the first marker, then a marker went
\* backwards and a running and a waiting PID were recorded under the
\* smaller tick.
C5_Witness ==
  /\ done # <<>>
  /\ ClassOf(done[1]) = "running"
  /\ current_time < data.max_time
  /\ \E p \in DOMAIN data.cpu : InSeq(current_time, data.cpu[p])
  /\ \E p \in DOMAIN data.io : InSeq(current_time, data.io[p])

\* A line whose running announcement carries -1.
IsSentinelRunning(line) ==
  /\ \E i \in 1..Len(line) : line[i].kind = "running"
  /\ \A i \in 1..Len(line) : line[i].kind = "running" => line[i].arg = MinusOne

\* Tick t was opened by a marker and the only lines read under it are
\* "running pid: -1".
OnlySentinelAt(t) ==
  /\ \E j \in 1..Len(done) : ClassOf(done[j]) = "time" /\ ValueOf(done[j]) = t
  /\ \E j \in 1..Len(done) :
       TickAfter(j - 1) = t /\ done[j] = <<Token("running", MinusOne)>>
  /\ \A j \in 1..Len(done) :
       (TickAfter(j - 1) = t /\ ClassOf(done[j]) # "time")
         => done[j] = <<Token("running", MinusOne)>>

TickUnused(t) ==
  /\ \A p \in DOMAIN data.cpu : ~InSeq(t, data.cpu[p])
  /\ \A p \in DOMAIN data.io : ~InSeq(t, data.io[p])
  /\ t \notin DOMAIN data.ready

C6_SentinelStep ==
  (pc = "parse" /\ done' # done /\ IsSentinelRunning(done'[Len(done')]))
    => /\ data'.cpu = data.cpu
       /\ -1 \notin data'.pids

C6_SentinelState ==
  /\ \A p \in data.pids : p >= 0
  /\ -1 \notin DOMAIN data.cpu
  /\ \A t \in Ticks : OnlySentinelAt(t) => (TickUnused(t) /\ data.max_time >= t)

\* C6: a line "running pid: -1" never creates or extends an entry of
\* data['cpu'] and never adds -1 to data['pids'], which holds non-negative
\* integers only; when it is the only event after a tick-3 marker, tick 3
\* appears in no entry of cpu, io or ready while max_time is at least 3.
C6_Sentinel == [](C6_SentinelState) /\ [][C6_SentinelStep]_vars

\* "running pid: -1" was the last line read, the only event of tick 3,
\* after other PIDs had been recorded.
C6_Witness ==
  /\ OnlySentinelAt(3)
  /\ done # <<>>
  /\ done[Len(done)] = <<Token("running", MinusOne)>>
  /\ data.pids # {}
  /\ data.max_time >= 3

\* C7: running, waiting and ready announcements read before any tick
\* marker are recorded under tick 0.
C7_PreMarkerRecorded ==
  /\ exit_code \in {-1, 0, 1}
  /\ \A j \in 1..Len(done) : \A p \in Pids :
       NoMarker(1, j) =>
         /\ Announces(j, "running", p, 0)
              => (p \in DOMAIN data.cpu /\ InSeq(0, data.cpu[p]))
         /\ Announces(j, "waiting", p, 0)
              => (p \in DOMAIN data.io /\ InSeq(0, data.io[p]))
         /\ Announces(j, "ready", p, 0) => InSeq(p, ReadyOf(0))

\* C8: a line matched by none of the four patterns leaves the parser state
\* unchanged.
C8_UnrecognizedStep ==
  (pc = "parse" /\ done' # done /\ ClassOf(done'[Len(done')]) = "none")
    => UNCHANGED <<data, current_time, current_running, current_waiting,
                   current_ready>>

C8_Unrecognized == [][C8_UnrecognizedStep]_vars

\* An unmatched line was the last one read, with a tick in progress that
\* has a running PID, a waiting PID and a ready PID.
C8_Witness ==
  /\ done # <<>>
  /\ ClassOf(done[Len(done)]) = "none"
  /\ current_time > 0
  /\ current_running # -1
  /\ current_waiting # <<>>
  /\ current_ready # <<>>

\* C9: no PID appears twice in any data['ready'][t].
C9_NoDuplicate ==
  \A t \in DOMAIN data.ready :
    \A i, j \in 1..Len(data.ready[t]) :
      data.ready[t][i] = data.ready[t][j] => i = j

\* The same PID has been ready-announced twice within the current tick.
C9_Witness ==
  \E i, j \in 1..Len(current_ready) :
    i < j /\ current_ready[i] = current_ready[j]

\* C10: with no known PID the renderer prints the diagnostic and does not
\* save an image; with a known PID it saves the image.  A log of unmatched
\* lines only yields no PID and max_time = 0.
C10_EmptyTrace ==
  /\ (\A j \in 1..Len(done) : ClassOf(done[j]) = "none")
       => (data.pids = {} /\ data.max_time = 0)
  /\ (pc = "exit" /\ exit_code = 0) =>
       /\ data.pids = {} =>
            (InSeq(NoProcMsg, stdout) /\ saved = {} /\ ~InSeq(SavedMsg, stdout))
       /\ data.pids # {} => (output_file \in saved /\ ~InSeq(NoProcMsg, stdout))
  /\ pc # "exit" => saved = {}

\* The renderer has returned on a log of unmatched lines only.
C10_Witness ==
  /\ pc = "exit"
  /\ exit_code = 0
  /\ done # <<>>
  /\ \A j \in 1..Len(done) : ClassOf(done[j]) = "none"
  /\ InSeq(NoProcMsg, stdout)
  /\ saved = {}

----------------------------------------------------------------------------
\* Ticks and PIDs written with a sign: lines the patterns reject.
IsMalformed(line) == \E i \in 1..Len(line) : line[i].arg = MinusOne

C11_ConsumeOnce ==
  (pc = "parse" /\ done' # done)
    => (Len(done') = Len(done) + 1 /\ SubSeq(done', 1, Len(done)) = done)

\* C11: parse_output is total: on every log the loop takes one iteration
\* per line, raises nothing and returns.
C11_Total ==
  /\ [](pc # "error")
  /\ [][C11_ConsumeOnce]_vars
  /\ ((pc = "parse") ~> (pc = "draw"))

\* parse_output has returned on a log that has a malformed line, an
\* unmatched line and a recorded announcement.
C11_Witness ==
  /\ pc = "draw"
  /\ \E j \in 1..Len(done) : IsMalformed(done[j])
  /\ \E j \in 1..Len(done) : done[j] = <<Token("other", <<>>)>>
  /\ data.pids # {}

\* C14: started without an input path the program prints the usage
\* message and exits with status 1; it never parses, never renders and
\* writes no image.
C14_UsageError ==
  argc < 2 =>
    /\ pc \in {"main", "exit"}
    /\ done = <<>>
    /\ data = InitData
    /\ saved = {}
    /\ pc = "exit" => (exit_code = 1 /\ stdout = <<UsageMsg>>)

\* The program has exited on a command line without an input path.
C14_Witness == argc = 1 /\ pc = "exit" /\ exit_code = 1

----------------------------------------------------------------------------
\* A line whose tick marker carries a negative integer.
IsNegativeMarker(line) ==
  /\ \E i \in 1..Len(line) : line[i].kind = "TIME"
  /\ \A i \in 1..Len(line) : line[i].kind = "TIME" => line[i].arg = MinusOne

C12_MarkerStep ==
  (pc = "parse" /\ pc' = "parse" /\ done' # done) =>
    /\ IsNegativeMarker(done'[Len(done')])
         => (current_time' = current_time /\ data'.max_time = data.max_time)
    /\ \A n \in Ticks :
         done'[Len(done')] = <<Token("TIME", Decimal(n))>> => current_time' = n

C12_NonNegative ==
  /\ current_time >= 0
  /\ data.max_time >= 0
  /\ \A p \in DOMAIN data.cpu :
       \A i \in 1..Len(data.cpu[p]) : data.cpu[p][i] >= 0
  /\ \A p \in DOMAIN data.io :
       \A i \in 1..Len(data.io[p]) : data.io[p][i] >= 0
  /\ \A t \in DOMAIN data.ready : t >= 0

\* C12: a tick marker with a negative integer changes neither
\* current_time nor max_time, so these and every recorded tick are never
\* negative; a marker is accepted whatever tick came before it.
C12_NegativeMarkerIgnored == [](C12_NonNegative) /\ [][C12_MarkerStep]_vars

\* A marker skipped tick 1, an event was recorded, and then a negative
\* marker was read.
C12_Witness ==
  /\ Len(done) >= 2
  /\ IsNegativeMarker(done[Len(done)])
  /\ current_time >= 2
  /\ \E j \in 1..Len(done) : done[j] = <<Token("TIME", Decimal(current_time))>>
  /\ \A j \in 1..Len(done) : done[j] # <<Token("TIME", Decimal(1))>>
  /\ data.pids # {}

----------------------------------------------------------------------------
\* The ticks at which the first j lines announce PID p in class c, in the
\* order of the lines.
RECURSIVE ExpectedTicks(_, _, _)
ExpectedTicks(c, p, j) ==
  IF j = 0 THEN <<>>
  ELSE IF ClassOf(done[j]) = c /\ ValueOf(done[j]) = p
       THEN Append(ExpectedTicks(c, p, j - 1), TickAfter(j - 1))
       ELSE ExpectedTicks(c, p, j - 1)

\* dict d holds exactly the announcements of class c of the log so far.
Records(d, c) ==
  /\ DOMAIN d = {p \in Pids : ExpectedTicks(c, p, Len(done)) # <<>>}
  /\ \A p \in DOMAIN d : d[p] = ExpectedTicks(c, p, Len(done))

\* The tick in force was announced by two markers.
TickRepeated ==
  \E k1, k2 \in 1..Len(done) :
    /\ k1 < k2
    /\ ClassOf(done[k1]) = "time" /\ ValueOf(done[k1]) = current_time
    /\ ClassOf(done[k2]) = "time" /\ ValueOf(done[k2]) = current_time
    /\ NoMarker(k2 + 1, Len(done))

C15_MarkerStep ==
  (pc = "parse" /\ pc' = "parse" /\ done' # done
     /\ ClassOf(done'[Len(done')]) = "time") =>
    /\ current_time' = ValueOf(done'[Len(done')])
    /\ data'.max_time = Max(data.max_time, ValueOf(done'[Len(done')]))
    /\ data'.cpu = data.cpu /\ data'.io = data.io
    /\ data'.ready = data.ready /\ data'.pids = data.pids

C15_SecondBlock ==
  TickRepeated =>
    /\ Records(data.cpu, "running")
    /\ Records(data.io, "waiting")
    /\ ReadyOf(current_time) = ExpectedQueue(current_time, Len(done))

\* C15: a tick marker with value n sets current_time to n and max_time to
\* max(max_time, n) and leaves cpu, io, ready and pids alone; when a tick is
\* announced a second time the entries of its first block are still there
\* and the events of the second block come after them.
C15_MarkerFrame == [](C15_SecondBlock) /\ [][C15_MarkerStep]_vars

----------------------------------------------------------------------------
\* The PIDs announced in class c among the first j lines since the latest
\* marker.
RECURSIVE BlockAnnounced(_, _)
BlockAnnounced(c, j) ==
  IF j = 0 \/ ClassOf(done[j]) = "time" THEN <<>>
  ELSE IF ClassOf(done[j]) = c
       THEN Append(BlockAnnounced(c, j - 1), ValueOf(done[j]))
       ELSE BlockAnnounced(c, j - 1)

ListOf(d, p) == IF p \in DOMAIN d THEN d[p] ELSE <<>>

\* d2 is d1 with tick t appended to the list of PID p and nothing else.
AppendedOnly(d1, d2, p, t) ==
  /\ DOMAIN d2 = DOMAIN d1 \cup {p}
  /\ d2[p] = Append(ListOf(d1, p), t)
  /\ \A q \in DOMAIN d1 : q # p => d2[q] = d1[q]

C16_Step ==
  (pc = "parse" /\ pc' = "parse" /\ done' # done) =>
    LET line == done'[Len(done')]
        t == TickAfter(Len(done))
    IN /\ (ClassOf(line) = "running" /\ ValueOf(line) # -1) =>
            /\ AppendedOnly(data.cpu, data'.cpu, ValueOf(line), t)
            /\ ValueOf(line) \in data'.pids
            /\ data'.io = data.io
       /\ ClassOf(line) = "waiting" =>
            /\ AppendedOnly(data.io, data'.io, ValueOf(line), t)
            /\ ValueOf(line) \in data'.pids
            /\ data'.cpu = data.cpu
       /\ ClassOf(line) = "time" =>
            /\ current_running' = -1
            /\ current_waiting' = <<>>
            /\ current_ready' = <<>>

C16_State ==
  /\ current_time = TickAfter(Len(done))
  /\ Records(data.cpu, "running")
  /\ Records(data.io, "waiting")
  /\ current_waiting = BlockAnnounced("waiting", Len(done))
  /\ current_ready = BlockAnnounced("ready", Len(done))

\* C16: a running (not -1) or waiting announcement for PID p read at tick
\* t, the value of the latest marker or 0, appends exactly t to cpu[p] or
\* io[p] and adds p to pids; no event is recorded under the tick of another
\* block, and a marker resets the running slot, the waiting list and the
\* ready queue in progress.
C16_TickAttribution == [](C16_State) /\ [][C16_Step]_vars

\* Events were recorded in a block before a marker that reset non-empty
\* temporaries, and in the block after it under the new tick.
C16_Witness ==
  /\ \E k \in 2..Len(done) :
       /\ ClassOf(done[k]) = "time"
       /\ ValueOf(done[k]) = current_time
       /\ NoMarker(k + 1, Len(done))
       /\ BlockAnnounced("waiting", k - 1) # <<>>
       /\ TickAfter(k - 1) # current_time
       /\ \E p \in DOMAIN data.io : InSeq(TickAfter(k - 1), data.io[p])
  /\ \E p \in DOMAIN data.cpu : InSeq(current_time, data.cpu[p])
  /\ \E p \in DOMAIN data.io : InSeq(current_time, data.io[p])
  /\ current_time < data.max_time

----------------------------------------------------------------------------
MarkersNonDecreasing ==
  \A k1, k2 \in 1..Len(done) :
    (k1 < k2 /\ ClassOf(done[k1]) = "time" /\ ClassOf(done[k2]) = "time")
      => ValueOf(done[k1]) <= ValueOf(done[k2])

NonDecreasing(q) == \A i, j \in 1..Len(q) : i < j => q[i] <= q[j]

\* C17: when the tick markers of the log come in non-decreasing order,
\* every cpu[p] and io[p] is non-decreasing.
C17_IntervalsOrdered ==
  MarkersNonDecreasing =>
    /\ \A p \in DOMAIN data.cpu : NonDecreasing(data.cpu[p])
    /\ \A p \in DOMAIN data.io : NonDecreasing(data.io[p])

\* A PID was recorded as running at two different ticks of a log whose
\* markers are in order.
C17_Witness ==
  /\ MarkersNonDecreasing
  /\ \E j \in 1..Len(done) : ClassOf(done[j]) = "time"
  /\ \E p \in DOMAIN data.cpu :
       Len(data.cpu[p]) >= 2 /\ data.cpu[p][1] < data.cpu[p][2]

----------------------------------------------------------------------------
\* The patterns that find something on a line.
Shapes(line) ==
  {k \in {"TIME", "running", "waiting", "ready"} :
     IF k = "TIME" THEN time_pattern(line).ok ELSE Search(k, line).ok}

C18_Step ==
  (pc = "parse" /\ pc' = "parse" /\ done' # done) =>
    LET line == done'[Len(done')]
        tm == time_pattern(line)
        rm == Search("running", line)
        wm == Search("waiting", line)
        dm == Search("ready", line)
    IN IF tm.ok
       THEN /\ current_time' = int(tm.group)
            /\ data'.cpu = data.cpu /\ data'.io = data.io
            /\ data'.pids = data.pids
            /\ current_waiting' = <<>> /\ current_ready' = <<>>
       ELSE IF rm.ok
       THEN /\ AppendedOnly(data.cpu, data'.cpu, int(rm.group), current_time)
            /\ data'.pids = data.pids \cup {int(rm.group)}
            /\ data'.io = data.io
            /\ UNCHANGED <<current_time, current_waiting, current_ready>>
       ELSE IF wm.ok
       THEN /\ AppendedOnly(data.io, data'.io, int(wm.group), current_time)
            /\ data'.pids = data.pids \cup {int(wm.group)}
            /\ data'.cpu = data.cpu
            /\ UNCHANGED <<current_time, current_running, current_ready>>
       ELSE IF dm.ok
       THEN /\ current_ready' = Append(current_ready, int(dm.group))
            /\ data'.pids = data.pids \cup {int(dm.group)}
            /\ data'.cpu = data.cpu /\ data'.io = data.io
            /\ UNCHANGED <<current_time, current_running, current_waiting>>
       ELSE UNCHANGED <<data, current_time>>

----------------------------------------------------------------------------
\* Every list of d1 is a prefix of the list of d2 under the same key.
GrowsTo(d1, d2) ==
  \A p \in DOMAIN d1 : p \in DOMAIN d2 /\ IsPrefix(d1[p], d2[p])

C19_Step ==
  /\ data'.max_time >= data.max_time
  /\ data.pids \subseteq data'.pids
  /\ GrowsTo(data.cpu, data'.cpu)
  /\ GrowsTo(data.io, data'.io)

\* C19: from one line to the next max_time never decreases, pids never
\* loses a member and every cpu[p] and io[p] is a prefix of its later
\* value, also when a marker announces a smaller tick than an earlier one.
C19_AppendOnly == [][C19_Step]_vars

\* The last line read is a marker below the tick in force before it, read
\* after running and waiting PIDs had been recorded.
C19_Witness ==
  /\ done # <<>>
  /\ ClassOf(done[Len(done)]) = "time"
  /\ current_time < TickAfter(Len(done) - 1)
  /\ current_time < data.max_time
  /\ DOMAIN data.cpu # {}
  /\ DOMAIN data.io # {}

====
